---- MODULE Spec2Model ----
(***************************************************************************)
(* A model of ndcube's sequence slice resolver (ndcube/cube_utils.py) and  *)
(* of its lazy lookup-table coordinates                                    *)
(* (ndcube/extra_coords/lookup_table_coord.py).                            *)
(*                                                                         *)
(* Python values are represented as records [k, v]:                        *)
(*   an int n          [k |-> "int",   v |-> <<n>>]                        *)
(*   slice(a, b, c)    [k |-> "slice", v |-> <<a, b, c>>], a field being   *)
(*                     <<>> for None and <<n>> for the integer n           *)
(*   a tuple           [k |-> "tuple", v |-> <<the elements>>]             *)
(*   None              [k |-> "None",  v |-> <<>>]                         *)
(*   a str             [k |-> "str",   v |-> <<>>]                         *)
(* A call's outcome is a record whose field err is "none" when the call    *)
(* returns and the name of the exception otherwise.                        *)
(***************************************************************************)
EXTENDS Integers, Sequences, FiniteSets, TLC

VARIABLES
    cubesequence,   \* the NDCubeSequence: [lengths, common_axis]
    ret,            \* the last call of the resolver and its outcome
    lutcs,          \* heap of LookupTableCoord instances: [dm, fr] (list ids)
    pylists,        \* heap of python list objects (sequences of object ids)
    frames,         \* heap of coordinate frames: [naxes, axes_order]
    dlts,           \* heap of DelayedLookupTable instances
    last,           \* the last lookup-table operation and its outcome
    pc              \* position of the scripted composition run

vars == <<cubesequence, ret, lutcs, pylists, frames, dlts, last, pc>>

resolver_vars == <<cubesequence, ret>>

lut_vars == <<lutcs, pylists, frames, dlts, last, pc>>

(***************************************************************************)
(* Bounds                                                                  *)
(***************************************************************************)
MaxCubes == 3

MaxCubeLen == 2

MaxIdx == 7

MaxStep == 2

MaxCommonAxis == 1

(***************************************************************************)
(* Python values                                                           *)
(***************************************************************************)
NoneField == <<>>

PyInt(n) == [k |-> "int", v |-> <<n>>]

PySlice(a, b, c) == [k |-> "slice", v |-> <<a, b, c>>]

PyTuple(s) == [k |-> "tuple", v |-> s]

PyNone == [k |-> "None", v |-> <<>>]

PyStr == [k |-> "str", v |-> <<>>]

slice_None == PySlice(NoneField, NoneField, NoneField)

IntOf(x) == x.v[1]

Ok(val) == [err |-> "none", val |-> val]

Raise(e) == [err |-> e, val |-> <<>>]

SequenceIndex(s, c) == <<s, c>>

SequenceSlice(s, item) == [sequence_index |-> s, cube_item |-> item]

Max(S) == CHOOSE x \in S : \A y \in S : y <= x

(***************************************************************************)
(* numpy / builtin helpers used by cube_utils.py                           *)
(***************************************************************************)
RECURSIVE cumsum(_)
cumsum(lens) ==
    IF Len(lens) = 0 THEN <<>>
    ELSE LET head == cumsum(SubSeq(lens, 1, Len(lens) - 1))
         IN Append(head, (IF Len(head) = 0 THEN 0 ELSE head[Len(head)]) + lens[Len(lens)])

arange(n) == [i \in 1..n |-> i - 1]

\* Resolution of a slice's fields against an array of the given length:
\* <<start, stop, step>> as numpy resolves them before walking the array.
AdjustIndices(length, sl) ==
    LET step  == IF sl.v[3] = NoneField THEN 1 ELSE sl.v[3][1]
        lower == IF step < 0 THEN -1 ELSE 0
        upper == IF step < 0 THEN length - 1 ELSE length
        clip(f, dflt) ==
            IF f = NoneField THEN dflt
            ELSE LET x == IF f[1] < 0 THEN f[1] + length ELSE f[1]
                 IN IF x < lower THEN lower ELSE IF x > upper THEN upper ELSE x
    IN <<clip(sl.v[1], IF step < 0 THEN upper ELSE lower),
         clip(sl.v[2], IF step < 0 THEN lower ELSE upper),
         step>>

\* arr[sl] for a one-dimensional array: the elements met walking from start
\* by step while stop is not reached.
RECURSIVE walk(_, _, _, _)
walk(arr, pos, stop, step) ==
    IF (step > 0 /\ pos >= stop) \/ (step < 0 /\ pos <= stop) THEN <<>>
    ELSE <<arr[pos + 1]>> \o walk(arr, pos + step, stop, step)

ndarray_getitem(arr, sl) ==
    LET adj == AdjustIndices(Len(arr), sl)
    IN walk(arr, adj[1], adj[2], adj[3])

(***************************************************************************)
(* cube_utils.py: cumulative extent arithmetic                             *)
(***************************************************************************)
\* The conversion with np.where testing "<" instead of "<=".
index_strict_where(cube_like_index, cumul_cube_lengths) ==
    LET E == cumul_cube_lengths
        n == Len(E)
    IN IF cube_like_index < E[1]
       THEN SequenceIndex(0, cube_like_index)
       ELSE LET where == {k \in 0..(n - 1) : E[k + 1] < cube_like_index}
                sequence_index == IF where = {} THEN 0 ELSE Max(where)
                cube_index ==
                    IF cube_like_index > E[n] - 1
                    THEN IF n = 1 THEN E[n] - 1 ELSE E[n] - E[n - 1] - 1
                    ELSE cube_like_index - E[sequence_index + 1]
            IN SequenceIndex(IF sequence_index < n - 1
                             THEN sequence_index + 1
                             ELSE sequence_index,
                             cube_index)

\* The conversion without the out-of-range branch: the offset is always the
\* index minus the extent found by np.where.
index_no_clamp(cube_like_index, cumul_cube_lengths) ==
    LET E == cumul_cube_lengths
        n == Len(E)
    IN IF cube_like_index < E[1]
       THEN SequenceIndex(0, cube_like_index)
       ELSE LET where == {k \in 0..(n - 1) : E[k + 1] <= cube_like_index}
                sequence_index == Max(where)
                cube_index == cube_like_index - E[sequence_index + 1]
            IN SequenceIndex(IF sequence_index < n - 1
                             THEN sequence_index + 1
                             ELSE sequence_index,
                             cube_index)

\* cube_utils.py:266-304
_convert_cube_like_index_to_sequence_index(cube_like_index, cumul_cube_lengths) ==
    LET E == cumul_cube_lengths
        n == Len(E)
    IN IF cube_like_index < E[1]
       THEN SequenceIndex(0, cube_like_index)
       ELSE LET where == {k \in 0..(n - 1) : E[k + 1] <= cube_like_index}
                sequence_index == Max(where)
                cube_index ==
                    IF cube_like_index > E[n] - 1
                    THEN IF n = 1 THEN E[n] - 1 ELSE E[n] - E[n - 1] - 1
                    ELSE cube_like_index - E[sequence_index + 1]
            IN SequenceIndex(IF sequence_index < n - 1
                             THEN sequence_index + 1
                             ELSE sequence_index,
                             cube_index)

\* The slice conversion over an array one element too short.
slice_short_arange(cube_like_slice, cumul_cube_lengths) ==
    IF cube_like_slice.v[3] = <<0>>
    THEN Raise("ValueError")
    ELSE LET total == cumul_cube_lengths[Len(cumul_cube_lengths)]
             cube_like_indices ==
                 ndarray_getitem(arange(IF total > 0 THEN total - 1 ELSE 0),
                                 cube_like_slice)
         IN Ok([i \in 1..Len(cube_like_indices) |->
                   _convert_cube_like_index_to_sequence_index(cube_like_indices[i],
                                                              cumul_cube_lengths)])

\* cube_utils.py:307-330
\* np.arange(cumul_cube_lengths[-1])[cube_like_slice], then one index
\* conversion per element; numpy refuses a zero step.
_convert_cube_like_slice_to_sequence_indices(cube_like_slice, cumul_cube_lengths) ==
    IF cube_like_slice.v[3] = <<0>>
    THEN Raise("ValueError")
    ELSE LET cube_like_indices ==
                 ndarray_getitem(arange(cumul_cube_lengths[Len(cumul_cube_lengths)]),
                                 cube_like_slice)
         IN Ok([i \in 1..Len(cube_like_indices) |->
                   _convert_cube_like_index_to_sequence_index(cube_like_indices[i],
                                                              cumul_cube_lengths)])

(***************************************************************************)
(* cube_utils.py: the resolver                                             *)
(***************************************************************************)
get_sequence_slices_from_int_item(int_item, cube_slice) ==
    <<SequenceSlice(int_item, cube_slice)>>

\* "not cube_like_item": None and the empty tuple are falsy.
falsy(x) == x.k = "None" \/ (x.k = "tuple" /\ Len(x.v) = 0)

\* list(None) raises TypeError, whose handler reads err.message: an
\* attribute exceptions do not have.  A tuple is padded while it is shorter
\* than common_axis, then position common_axis is assigned.
_convert_sequence_index_to_sequence_slice(sequence_index, common_axis, cube_like_item) ==
    IF falsy(cube_like_item) /\ common_axis = 0
    THEN Ok(SequenceSlice(sequence_index[1], PyInt(sequence_index[2])))
    ELSE IF cube_like_item.k = "None"
    THEN Raise("AttributeError")
    ELSE LET given == cube_like_item.v
             cube_item_list ==
                 [i \in 1..(IF Len(given) < common_axis THEN common_axis ELSE Len(given)) |->
                     IF i <= Len(given) THEN given[i] ELSE slice_None]
         IN IF common_axis >= Len(cube_item_list)
            THEN Raise("IndexError")
            ELSE Ok(SequenceSlice(sequence_index[1],
                                  PyTuple([cube_item_list EXCEPT ![common_axis + 1] =
                                              PyInt(sequence_index[2])])))

\* The first failing conversion of a list comprehension ends the call.
first_error(outs) ==
    IF \E i \in 1..Len(outs) : outs[i].err # "none"
    THEN outs[CHOOSE i \in 1..Len(outs) :
                 outs[i].err # "none" /\ \A j \in 1..(i - 1) : outs[j].err = "none"]
    ELSE Ok([i \in 1..Len(outs) |-> outs[i].val])

\* cube_utils.py:208-263.  The tuple branch reads the name `item`, which the
\* function never binds, as soon as the driving element is an int or a slice.
convert_cube_like_item_to_sequence_slices(cs, cube_like_item) ==
    LET cumul_cube_lengths == cumsum(cs.lengths)
        common_axis == cs.common_axis
    IN CASE cube_like_item.k = "int" ->
              IF common_axis # 0 THEN Raise("ValueError")
              ELSE LET sequence_index ==
                           _convert_cube_like_index_to_sequence_index(
                               IntOf(cube_like_item), cumul_cube_lengths)
                   IN Ok(get_sequence_slices_from_int_item(sequence_index[1],
                                                           PyInt(sequence_index[2])))
         [] cube_like_item.k = "slice" ->
              IF common_axis # 0 THEN Raise("ValueError")
              ELSE LET sequence_indices ==
                           _convert_cube_like_slice_to_sequence_indices(
                               cube_like_item, cumul_cube_lengths)
                   IN IF sequence_indices.err # "none" THEN sequence_indices
                      ELSE first_error(
                               [i \in 1..Len(sequence_indices.val) |->
                                   _convert_sequence_index_to_sequence_slice(
                                       sequence_indices.val[i], common_axis, PyNone)])
         [] cube_like_item.k = "tuple" ->
              IF Len(cube_like_item.v) < common_axis THEN Raise("ValueError")
              ELSE IF Len(cube_like_item.v) <= common_axis THEN Raise("IndexError")
              ELSE IF cube_like_item.v[common_axis + 1].k \in {"int", "slice"}
                   THEN Raise("NameError")
                   ELSE Raise("ValueError")
         [] OTHER -> Raise("UnboundLocalError")

\* data[i] of a python list: negative indices count from the end.
list_index_ok(i, n) == -n <= i /\ i < n

list_index(i, n) == IF i < 0 THEN i + n ELSE i

\* Applying an item to a stored cube is the cube's business: the sliced cube
\* is the pair of the cube's position and the item.
cube_getitem(i, item) == [cube |-> i, item |-> item]

\* cube_utils.py:144-168.  With one element the code reads the attribute
\* cube_slice, which SequenceSlice (fields sequence_index, cube_item) lacks.
slice_sequence(cs, sequence_slices) ==
    LET n == Len(cs.lengths)
    IN IF Len(sequence_slices) = 1
       THEN Raise("AttributeError")
       ELSE IF \E i \in 1..Len(sequence_slices) :
                   ~list_index_ok(sequence_slices[i].sequence_index, n)
       THEN Raise("IndexError")
       ELSE Ok([kind |-> "NDCubeSequence",
                data |-> [i \in 1..Len(sequence_slices) |->
                             cube_getitem(list_index(sequence_slices[i].sequence_index, n),
                                          sequence_slices[i].cube_item)]])

index_sequence_as_cube(cs, item) ==
    LET sequence_slices == convert_cube_like_item_to_sequence_slices(cs, item)
    IN IF sequence_slices.err # "none" THEN sequence_slices
       ELSE slice_sequence(cs, sequence_slices.val)

(***************************************************************************)
(* Inputs                                                                  *)
(***************************************************************************)
\* The cubes' lengths along the common axis: at least one cube.
LengthSeqs == UNION {[1..n -> 0..MaxCubeLen] : n \in 1..MaxCubes}

OptIdx == {NoneField} \cup {<<i>> : i \in (-MaxIdx)..MaxIdx}

OptStep == {NoneField} \cup {<<i>> : i \in (-MaxStep)..MaxStep}

Slices == {PySlice(a, b, c) : a \in OptIdx, b \in OptIdx, c \in OptStep}

Indices == (-2)..MaxIdx

\* never called on the heap of lookup-table coordinates
NoLut ==
    /\ lutcs = <<>>
    /\ pylists = <<>>
    /\ frames = <<>>
    /\ dlts = <<>>
    /\ last = [op |-> "none"]
    /\ pc = 0

(***************************************************************************)
(* Cumulative extent arithmetic applied to the extents of a sequence: a    *)
(* run is one call, its arguments drawn at the start.                      *)
(***************************************************************************)
Pending == [err |-> "pending", val |-> <<>>]

InitGeometry ==
    /\ cubesequence \in {[lengths |-> l, common_axis |-> 0] : l \in LengthSeqs}
    /\ ret \in {[op |-> "index", arg |-> PyInt(v), out |-> Pending] : v \in Indices}
               \cup {[op |-> "slice", arg |-> sl, out |-> Pending] : sl \in Slices}
    /\ NoLut

CallIndexToSequenceIndex ==
    /\ ret.op = "index" /\ ret.out = Pending
    /\ ret' = [ret EXCEPT !.out =
                   Ok(_convert_cube_like_index_to_sequence_index(
                          IntOf(ret.arg), cumsum(cubesequence.lengths)))]
    /\ UNCHANGED <<cubesequence, lut_vars>>

CallSliceToSequenceIndices ==
    /\ ret.op = "slice" /\ ret.out = Pending
    /\ ret' = [ret EXCEPT !.out =
                   _convert_cube_like_slice_to_sequence_indices(
                       ret.arg, cumsum(cubesequence.lengths))]
    /\ UNCHANGED <<cubesequence, lut_vars>>

NextGeometry ==
    \/ CallIndexToSequenceIndex
    \/ CallSliceToSequenceIndices

SpecGeometry == InitGeometry /\ [][NextGeometry]_vars

(***************************************************************************)
(* Claims on the cumulative extent arithmetic                              *)
(***************************************************************************)
Extents == cumsum(cubesequence.lengths)

TotalLength == Extents[Len(Extents)]

Returned(op) == ret.op = op /\ ret.out.err = "none"

\* C1: round trip.  For a virtual index v with 0 <= v < T the returned pair
\* (s, c) names a cube of the sequence and an offset inside that cube, and
\* the start of cube s plus c is v again; extents [3,7,10] send 5 to (1,2).
C1_RoundTrip ==
    /\ (Returned("index") /\ 0 <= IntOf(ret.arg) /\ IntOf(ret.arg) < TotalLength) =>
           LET s == ret.out.val[1]
               c == ret.out.val[2]
           IN /\ 0 <= s /\ s < Len(cubesequence.lengths)
              /\ 0 <= c /\ c < cubesequence.lengths[s + 1]
              /\ (IF s = 0 THEN 0 ELSE Extents[s]) + c = IntOf(ret.arg)
    /\ _convert_cube_like_index_to_sequence_index(5, <<3, 7, 10>>) = <<1, 2>>

\* a valid index resolved into a later cube, past an empty one
C1_Witness ==
    /\ Returned("index")
    /\ cubesequence.lengths = <<2, 0, 2>>
    /\ IntOf(ret.arg) = 3
    /\ ret.out.val = <<2, 1>>

\* s.indices(T) of python's slice objects, for a slice with a non-zero step
slice_indices(sl, T) ==
    LET step == IF sl.v[3] = NoneField THEN 1 ELSE sl.v[3][1]
        lo == IF step > 0 THEN 0 ELSE -1
        hi == IF step > 0 THEN T ELSE T - 1
        bound(f, dflt) ==
            IF f = NoneField THEN dflt
            ELSE IF f[1] >= 0
                 THEN (IF f[1] < hi THEN f[1] ELSE hi)
                 ELSE (IF f[1] + T > lo THEN f[1] + T ELSE lo)
    IN <<bound(sl.v[1], IF step > 0 THEN lo ELSE hi),
         bound(sl.v[2], IF step > 0 THEN hi ELSE lo),
         step>>

\* len(range(start, stop, step))
range_len(r) ==
    IF r[3] > 0
    THEN (IF r[1] < r[2] THEN ((r[2] - r[1] - 1) \div r[3]) + 1 ELSE 0)
    ELSE (IF r[2] < r[1] THEN ((r[1] - r[2] - 1) \div (-r[3])) + 1 ELSE 0)

\* C2: a slice with a non-zero step resolves to one SequenceIndex per
\* element of range(*s.indices(T)), in order, each the single-index
\* conversion of that element; extents [3,7,10] and slice(2, 8) give
\* (0,2), (1,0), (1,1), (1,2), (1,3), (2,0).
C2_SliceResolution ==
    /\ (ret.op = "slice" /\ ret.out # Pending /\ ret.arg.v[3] # <<0>>) =>
           LET r == slice_indices(ret.arg, TotalLength)
           IN /\ ret.out.err = "none"
              /\ Len(ret.out.val) = range_len(r)
              /\ \A i \in 1..Len(ret.out.val) :
                     ret.out.val[i] =
                         _convert_cube_like_index_to_sequence_index(
                             r[1] + (i - 1) * r[3], Extents)
    /\ _convert_cube_like_slice_to_sequence_indices(
           PySlice(<<2>>, <<8>>, NoneField), <<3, 7, 10>>) =
       Ok(<<(<<0, 2>>), (<<1, 0>>), (<<1, 1>>), (<<1, 2>>), (<<1, 3>>), (<<2, 0>>)>>)

\* a backwards slice with a negative start that crosses two cubes
C2_Witness ==
    /\ Returned("slice")
    /\ cubesequence.lengths = <<2, 1, 2>>
    /\ ret.arg = PySlice(<<-2>>, NoneField, <<-2>>)
    /\ ret.out.val = <<(<<2, 0>>), (<<0, 1>>)>>

(***************************************************************************)
(* The resolver applied to a sequence: a run is one call, its arguments    *)
(* drawn at the start.                                                     *)
(***************************************************************************)
MaxTupleLen == 3

MaxSlices == 2

TupleElems == {PyInt(0), PyInt(1), slice_None, PySlice(<<1>>, <<3>>, NoneField), PyStr}

Tuples == {PyTuple(t) : t \in UNION {[1..n -> TupleElems] : n \in 0..MaxTupleLen}}

MaxItemIdx == 3

ItemOptIdx == {NoneField} \cup {<<i>> : i \in (-MaxItemIdx)..MaxItemIdx}

ItemSlices == {PySlice(a, b, c) : a \in ItemOptIdx, b \in ItemOptIdx, c \in OptStep}

CubeLikeItems ==
    {PyInt(v) : v \in Indices} \cup ItemSlices \cup Tuples \cup {PyNone, PyStr}

CubeItems == {PyInt(0), slice_None, PyTuple(<<PyInt(0), slice_None>>)}

SequenceSliceLists ==
    UNION {[1..n -> {SequenceSlice(i, item) : i \in (-1)..MaxCubes, item \in CubeItems}] :
              n \in 0..MaxSlices}

InitResolver ==
    /\ cubesequence \in {[lengths |-> l, common_axis |-> a] :
                            l \in LengthSeqs, a \in 0..MaxCommonAxis}
    /\ ret \in {[op |-> o, arg |-> item, out |-> Pending] :
                   o \in {"convert_cube_like_item_to_sequence_slices",
                          "index_sequence_as_cube"},
                   item \in CubeLikeItems}
               \cup {[op |-> "slice_sequence", arg |-> L, out |-> Pending] :
                        L \in SequenceSliceLists}
    /\ NoLut

CallConvertCubeLikeItem ==
    /\ ret.op = "convert_cube_like_item_to_sequence_slices" /\ ret.out = Pending
    /\ ret' = [ret EXCEPT !.out =
                   convert_cube_like_item_to_sequence_slices(cubesequence, ret.arg)]
    /\ UNCHANGED <<cubesequence, lut_vars>>

CallSliceSequence ==
    /\ ret.op = "slice_sequence" /\ ret.out = Pending
    /\ ret' = [ret EXCEPT !.out = slice_sequence(cubesequence, ret.arg)]
    /\ UNCHANGED <<cubesequence, lut_vars>>

CallIndexSequenceAsCube ==
    /\ ret.op = "index_sequence_as_cube" /\ ret.out = Pending
    /\ ret' = [ret EXCEPT !.out = index_sequence_as_cube(cubesequence, ret.arg)]
    /\ UNCHANGED <<cubesequence, lut_vars>>

NextResolver ==
    \/ CallConvertCubeLikeItem
    \/ CallSliceSequence
    \/ CallIndexSequenceAsCube

SpecResolver == InitResolver /\ [][NextResolver]_vars

(***************************************************************************)
(* Claims on the resolver                                                  *)
(***************************************************************************)
Called(op) == ret.op = op /\ ret.out # Pending

\* the virtual indices an int or a slice selects over [0, T)
selected(elem, T) ==
    IF elem.k = "int" THEN <<IntOf(elem)>>
    ELSE LET r == slice_indices(elem, T)
         IN [i \in 1..range_len(r) |-> r[1] + (i - 1) * r[3]]

\* the driving element of a tuple item is a valid int or slice
driven(item, a, T) ==
    /\ item.k = "tuple"
    /\ Len(item.v) >= a + 1
    /\ \/ item.v[a + 1].k = "int" /\ 0 <= IntOf(item.v[a + 1]) /\ IntOf(item.v[a + 1]) < T
       \/ item.v[a + 1].k = "slice" /\ item.v[a + 1].v[3] # <<0>>

\* C3: a tuple item whose element at position common_axis is an int or a
\* slice resolves to one SequenceSlice per selected virtual index, in order,
\* each cube_item being the tuple with position common_axis replaced by the
\* offset inside the cube and every other element kept in place.
C3_TupleItem ==
    (/\ Called("convert_cube_like_item_to_sequence_slices")
     /\ driven(ret.arg, cubesequence.common_axis, TotalLength)) =>
        LET a == cubesequence.common_axis
            vs == selected(ret.arg.v[a + 1], TotalLength)
        IN ret.out =
               Ok([i \in 1..Len(vs) |->
                      LET si == _convert_cube_like_index_to_sequence_index(vs[i], Extents)
                      IN SequenceSlice(si[1],
                                       PyTuple([ret.arg.v EXCEPT ![a + 1] = PyInt(si[2])]))])

\* C4: slice_sequence on a list of SequenceSlice with valid cube indices
\* completes; one element gives the bare sliced cube, two or more give a
\* sequence of the sliced cubes in list order.
C4_SliceSequence ==
    (/\ Called("slice_sequence")
     /\ Len(ret.arg) >= 1
     /\ \A i \in 1..Len(ret.arg) :
            0 <= ret.arg[i].sequence_index
            /\ ret.arg[i].sequence_index < Len(cubesequence.lengths)) =>
        /\ ret.out.err = "none"
        /\ Len(ret.arg) = 1 =>
               ret.out.val = cube_getitem(ret.arg[1].sequence_index, ret.arg[1].cube_item)
        /\ Len(ret.arg) >= 2 =>
               ret.out.val =
                   [kind |-> "NDCubeSequence",
                    data |-> [i \in 1..Len(ret.arg) |->
                                 cube_getitem(ret.arg[i].sequence_index,
                                              ret.arg[i].cube_item)]]

(***************************************************************************)
(* lookup_table_coord.py.  A lookup table is represented by its number of  *)
(* array dimensions: lookup_table = [is_tuple, ndims], ndims holding one   *)
(* entry per component table.  An index item is a sequence over            *)
(* {"int", "slice"}.  A realized model is represented by its n_inputs.     *)
(***************************************************************************)
MaxLutc == 3

MaxDlt == 4

MaxListLen == 4

MaxTables == 2

MaxTableDim == 2

MaxItemLen == 2

RECURSIVE SumSeq(_)
SumSeq(q) == IF Len(q) = 0 THEN 0 ELSE q[1] + SumSeq(Tail(q))

count_ints(item) == Cardinality({i \in 1..Len(item) : item[i] = "int"})

DelayedLookupTable(lookup_table, model_function, mesh) ==
    [lookup_table |-> lookup_table, model_function |-> model_function, mesh |-> mesh]

\* lookup_table_coord.py:139-159; tabular_model refuses less than one dimension
generate_tabular(ndim) == IF ndim < 1 THEN Raise("ValueError") ELSE Ok(ndim)

\* lookup_table_coord.py:161-175.  Tabular & Tabular & ... takes the sum of
\* the tables' dimensions as inputs; Mapping(range(lt0.ndim) * n) | model
\* takes lt0.ndim inputs and needs its lt0.ndim * n outputs to be the
\* model's inputs.
_generate_compound_model(ndims, mesh) ==
    IF \E i \in 1..Len(ndims) : ndims[i] < 1 THEN Raise("ValueError")
    ELSE IF mesh THEN Ok(SumSeq(ndims))
    ELSE IF ndims[1] * Len(ndims) # SumSeq(ndims) THEN Raise("ModelDefinitionError")
    ELSE Ok(ndims[1])

\* lookup_table_coord.py:237-244
_model_from_quantity(ndims, mesh) ==
    IF Len(ndims) > 1
    THEN _generate_compound_model(ndims, mesh)
    ELSE generate_tabular(ndims[1])

\* The construction functions handed to DelayedLookupTable: the partial of
\* _model_from_quantity (line 254), _generate_time_lookup (210-211) and
\* _generate_skycoord_lookup (220-221), each with the mesh it captured.
model_function_apply(fn, lookup_table) ==
    CASE fn.name = "_model_from_quantity" -> _model_from_quantity(lookup_table.ndims, fn.mesh)
      [] fn.name = "_generate_time_lookup" -> _model_from_quantity(lookup_table.ndims, FALSE)
      [] fn.name = "_generate_skycoord_lookup" ->
             _model_from_quantity(lookup_table.ndims, fn.mesh)

\* lookup_table_coord.py:267-268
DelayedLookupTable__call__(d) == model_function_apply(d.model_function, d.lookup_table)

\* array[item]: an int removes a dimension, a slice keeps it
array_getitem(ndim, item) ==
    IF Len(item) > ndim THEN Raise("IndexError") ELSE Ok(ndim - count_ints(item))

\* lookup_table_coord.py:270-280.  The new instance is built without the
\* mesh argument, whose default is True.
DelayedLookupTable__getitem__(d, item) ==
    LET lt == d.lookup_table
        newlt ==
            IF lt.is_tuple
            THEN IF d.mesh
                 THEN IF Len(item) # Len(lt.ndims) THEN Raise("AssertionError")
                      ELSE first_error([i \in 1..Len(lt.ndims) |->
                                           array_getitem(lt.ndims[i], <<item[i]>>)])
                 ELSE first_error([i \in 1..Len(lt.ndims) |->
                                      array_getitem(lt.ndims[i], item)])
            ELSE first_error(<<array_getitem(lt.ndims[1], item)>>)
    IN IF newlt.err # "none" THEN newlt
       ELSE Ok(DelayedLookupTable([is_tuple |-> lt.is_tuple, ndims |-> newlt.val],
                                  d.model_function, TRUE))

(***************************************************************************)
(* LookupTableCoord instances live on a heap: an instance holds references *)
(* to its two list objects, a list holds references to delayed tables or   *)
(* frames.  Object ids are positions in the heaps.                         *)
(***************************************************************************)
delayed_models_of(a) == pylists[lutcs[a].delayed_models]

frames_of(a) == pylists[lutcs[a].frames]

range_tuple(lo, hi) == [i \in 1..(hi - lo) |-> lo + i - 1]

\* lookup_table_coord.py:112-117
ndim(a) == SumSeq([i \in 1..Len(frames_of(a)) |-> Len(frames[frames_of(a)[i]].axes_order)])

NoCall == [op |-> "none", a |-> 0, b |-> 0, item |-> <<>>, err |-> "none", res |-> 0,
           calls |-> 0]

Kinds == {"quantity", "time", "sky"}

\* lookup_table_coord.py:37-59 with _from_quantity (246-254), _from_time
\* (202-214) and _from_skycoord (216-235): one delayed table and one frame.
\* A time table is one-dimensional; a sky position has two components.
LookupTableCoord__init__(kind, ntables, tdim, mesh) ==
    LET lt == CASE kind = "quantity" ->
                       [is_tuple |-> TRUE, ndims |-> [i \in 1..ntables |-> tdim]]
                [] kind = "time" -> [is_tuple |-> FALSE, ndims |-> <<tdim>>]
                [] kind = "sky" -> [is_tuple |-> TRUE, ndims |-> <<tdim, tdim>>]
        fn == CASE kind = "quantity" -> [name |-> "_model_from_quantity", mesh |-> mesh]
                [] kind = "time" -> [name |-> "_generate_time_lookup", mesh |-> FALSE]
                [] kind = "sky" -> [name |-> "_generate_skycoord_lookup", mesh |-> mesh]
        naxes == CASE kind = "quantity" -> ntables
                   [] kind = "time" -> 1
                   [] kind = "sky" -> 2
    IN /\ dlts' = Append(dlts, DelayedLookupTable(lt, fn, mesh))
       /\ frames' = Append(frames, [naxes |-> naxes, axes_order |-> range_tuple(0, naxes)])
       /\ pylists' = pylists \o << <<Len(dlts) + 1>>, <<Len(frames) + 1>> >>
       /\ lutcs' = Append(lutcs, [delayed_models |-> Len(pylists) + 1,
                                  frames |-> Len(pylists) + 2])
       /\ last' = [NoCall EXCEPT !.op = "init", !.res = Len(lutcs) + 1]

\* the re-indexing loop of __and__ (lines 77-81) from position i of the list
RECURSIVE reindex(_, _, _, _)
reindex(frs, flist, i, ind) ==
    IF i > Len(flist) THEN frs
    ELSE LET new_ind == ind + frs[flist[i]].naxes
         IN reindex([frs EXCEPT ![flist[i]].axes_order = range_tuple(ind, new_ind)],
                    flist, i + 1, new_ind)

\* lookup_table_coord.py:67-83.  copy.copy is shallow: the new instance
\* refers to self's two list objects, which += then extends in place.
LookupTableCoord__and__(self, other) ==
    LET dm == lutcs[self].delayed_models
        fr == lutcs[self].frames
        lists1 == [pylists EXCEPT ![dm] = @ \o pylists[lutcs[other].delayed_models]]
        lists2 == [lists1 EXCEPT ![fr] = @ \o lists1[lutcs[other].frames]]
    IN /\ pylists' = lists2
       /\ frames' = reindex(frames, lists2[fr], 1, 0)
       /\ lutcs' = Append(lutcs, [delayed_models |-> dm, frames |-> fr])
       /\ last' = [NoCall EXCEPT !.op = "and", !.a = self, !.b = other,
                                 !.res = Len(lutcs) + 1]
       /\ UNCHANGED dlts

\* sanitize_slices(item, ndim): no more entries than ndim, padded with
\* slice(None) to ndim entries
sanitize_slices(item, n) ==
    IF Len(item) > n THEN Raise("ValueError")
    ELSE Ok([i \in 1..n |-> IF i <= Len(item) THEN item[i] ELSE "slice"])

\* The loop of __getitem__ (lines 93-102) from pair k on: acc holds the
\* error met, the new delayed tables, the kept frames and the number of
\* times a construction function was invoked.
RECURSIVE getitem_loop(_, _, _, _, _, _)
getitem_loop(dms, frs, item, k, ind, acc) ==
    IF k > Len(dms) \/ k > Len(frs) THEN acc
    ELSE LET dmodel == dlts[dms[k]]
             model == DelayedLookupTable__call__(dmodel)
             called == [acc EXCEPT !.calls = @ + 1]
         IN IF model.err # "none" THEN [called EXCEPT !.err = model.err]
            ELSE LET n_axes == model.val
                 IN IF ind + n_axes > Len(item) THEN [called EXCEPT !.err = "IndexError"]
                    ELSE LET sub_items == SubSeq(item, ind + 1, ind + n_axes)
                         IN IF \A i \in 1..Len(sub_items) : sub_items[i] = "int"
                            THEN getitem_loop(dms, frs, item, k + 1, ind + n_axes, called)
                            ELSE LET sliced == DelayedLookupTable__getitem__(dmodel, sub_items)
                                 IN IF sliced.err # "none"
                                    THEN [called EXCEPT !.err = sliced.err]
                                    ELSE getitem_loop(
                                             dms, frs, item, k + 1, ind + n_axes,
                                             [called EXCEPT
                                                 !.new_dmodels = Append(@, sliced.val),
                                                 !.new_frames = Append(@, frs[k])])

getitem_result(self, item) ==
    LET clean == sanitize_slices(item, ndim(self))
        start == [err |-> "none", new_dmodels |-> <<>>, new_frames |-> <<>>, calls |-> 0]
    IN IF clean.err # "none" THEN [start EXCEPT !.err = clean.err]
       ELSE getitem_loop(delayed_models_of(self), frames_of(self), clean.val, 1, 0, start)

\* lookup_table_coord.py:85-110
LookupTableCoord__getitem__(self, item) ==
    LET r == getitem_result(self, item)
        call == [NoCall EXCEPT !.op = "getitem", !.a = self, !.item = item,
                               !.calls = r.calls]
    IN IF r.err # "none"
       THEN /\ last' = [call EXCEPT !.err = r.err]
            /\ UNCHANGED <<lutcs, pylists, frames, dlts>>
       ELSE IF Len(r.new_dmodels) = 0
       THEN /\ last' = call
            /\ UNCHANGED <<lutcs, pylists, frames, dlts>>
       ELSE /\ dlts' = dlts \o r.new_dmodels
            /\ pylists' = pylists \o
                   << [i \in 1..Len(r.new_dmodels) |-> Len(dlts) + i], r.new_frames >>
            /\ lutcs' = Append(lutcs, [delayed_models |-> Len(pylists) + 1,
                                       frames |-> Len(pylists) + 2])
            /\ last' = [call EXCEPT !.res = Len(lutcs) + 1]
            /\ UNCHANGED frames

\* Realizing the first n delayed tables of a list one after the other:
\* the error met or the summed inputs, and the number of invocations.
RECURSIVE realize(_, _, _)
realize(dms, k, acc) ==
    IF k > Len(dms) THEN acc
    ELSE LET m == DelayedLookupTable__call__(dlts[dms[k]])
         IN IF m.err # "none" THEN [acc EXCEPT !.err = m.err, !.calls = @ + 1]
            ELSE realize(dms, k + 1, [acc EXCEPT !.n_inputs = @ + m.val, !.calls = @ + 1])

\* lookup_table_coord.py:119-124
model_of(self) ==
    IF Len(delayed_models_of(self)) = 0
    THEN [err |-> "IndexError", n_inputs |-> 0, calls |-> 0]
    ELSE realize(delayed_models_of(self), 1, [err |-> "none", n_inputs |-> 0, calls |-> 0])

LookupTableCoord_model(self) ==
    LET m == model_of(self)
    IN /\ last' = [NoCall EXCEPT !.op = "model", !.a = self, !.err = m.err,
                                 !.res = m.n_inputs, !.calls = m.calls]
       /\ UNCHANGED <<lutcs, pylists, frames, dlts>>

\* lookup_table_coord.py:133-137: self.model is read twice
LookupTableCoord_wcs(self) ==
    LET m == model_of(self)
    IN /\ last' = [NoCall EXCEPT !.op = "wcs", !.a = self, !.err = m.err,
                                 !.res = m.n_inputs,
                                 !.calls = IF m.err = "none" THEN 2 * m.calls ELSE m.calls]
       /\ UNCHANGED <<lutcs, pylists, frames, dlts>>

\* d[item] on a delayed table of the heap
DelayedLookupTable_slice(d, item) ==
    LET r == DelayedLookupTable__getitem__(dlts[d], item)
        call == [NoCall EXCEPT !.op = "dlt_getitem", !.a = d, !.item = item]
    IN IF r.err # "none"
       THEN /\ last' = [call EXCEPT !.err = r.err]
            /\ UNCHANGED <<lutcs, pylists, frames, dlts>>
       ELSE /\ dlts' = Append(dlts, r.val)
            /\ last' = [call EXCEPT !.res = Len(dlts) + 1]
            /\ UNCHANGED <<lutcs, pylists, frames>>

\* d() on a delayed table of the heap
DelayedLookupTable_realize(d) ==
    LET m == DelayedLookupTable__call__(dlts[d])
    IN /\ last' = [NoCall EXCEPT !.op = "dlt_call", !.a = d, !.err = m.err,
                                 !.res = IF m.err = "none" THEN m.val ELSE 0,
                                 !.calls = 1]
       /\ UNCHANGED <<lutcs, pylists, frames, dlts>>

Items == UNION {[1..n -> {"int", "slice"}] : n \in 1..MaxItemLen}

NoResolver ==
    /\ cubesequence = [lengths |-> <<>>, common_axis |-> 0]
    /\ ret = [op |-> "none"]

InitLut ==
    /\ lutcs = <<>>
    /\ pylists = <<>>
    /\ frames = <<>>
    /\ dlts = <<>>
    /\ last = NoCall
    /\ pc = 0
    /\ NoResolver

Construct ==
    /\ Len(lutcs) < MaxLutc
    /\ Len(dlts) < MaxDlt
    /\ \E kind \in Kinds, ntables \in 1..MaxTables, tdim \in 1..MaxTableDim,
          mesh \in BOOLEAN :
           /\ kind = "time" => ntables = 1 /\ tdim = 1
           /\ kind = "sky" => ntables = 1
           /\ LookupTableCoord__init__(kind, ntables, tdim, mesh)
    /\ UNCHANGED <<pc, resolver_vars>>

And ==
    /\ Len(lutcs) < MaxLutc
    /\ \E a \in 1..Len(lutcs), b \in 1..Len(lutcs) :
           /\ Len(frames_of(a)) + Len(frames_of(b)) <= MaxListLen
           /\ LookupTableCoord__and__(a, b)
    /\ UNCHANGED <<pc, resolver_vars>>

GetItem ==
    /\ \E a \in 1..Len(lutcs), item \in Items :
           /\ LET r == getitem_result(a, item)
              IN (r.err = "none" /\ Len(r.new_dmodels) > 0) =>
                     /\ Len(lutcs) < MaxLutc
                     /\ Len(dlts) + Len(r.new_dmodels) <= MaxDlt
           /\ LookupTableCoord__getitem__(a, item)
    /\ UNCHANGED <<pc, resolver_vars>>

Model ==
    /\ \E a \in 1..Len(lutcs) : LookupTableCoord_model(a)
    /\ UNCHANGED <<pc, resolver_vars>>

Wcs ==
    /\ \E a \in 1..Len(lutcs) : LookupTableCoord_wcs(a)
    /\ UNCHANGED <<pc, resolver_vars>>

SliceTable ==
    /\ \E d \in 1..Len(dlts), item \in Items :
           /\ DelayedLookupTable__getitem__(dlts[d], item).err = "none" => Len(dlts) < MaxDlt
           /\ DelayedLookupTable_slice(d, item)
    /\ UNCHANGED <<pc, resolver_vars>>

RealizeTable ==
    /\ \E d \in 1..Len(dlts) : DelayedLookupTable_realize(d)
    /\ UNCHANGED <<pc, resolver_vars>>

NextLut ==
    \/ Construct
    \/ And
    \/ GetItem
    \/ Model
    \/ Wcs

SpecLut == InitLut /\ [][NextLut]_vars

(***************************************************************************)
(* One coordinate is built and its delayed table is sliced and realized    *)
(***************************************************************************)
ConstructFirst ==
    /\ Len(lutcs) = 0
    /\ \E kind \in Kinds, ntables \in 1..MaxTables, tdim \in 1..MaxTableDim,
          mesh \in BOOLEAN :
           /\ kind = "time" => ntables = 1 /\ tdim = 1
           /\ kind = "sky" => ntables = 1
           /\ LookupTableCoord__init__(kind, ntables, tdim, mesh)
    /\ UNCHANGED <<pc, resolver_vars>>

NextDlt ==
    \/ ConstructFirst
    \/ SliceTable
    \/ RealizeTable

SpecDlt == InitLut /\ [][NextDlt]_vars

(***************************************************************************)
(* Three coordinates A, B, C (instances 1, 2, 3) are built, then composed  *)
(* as X = A & B, R1 = X & C, Y = B & C, R2 = A & Y (instances 4..7).       *)
(***************************************************************************)
AssocOperands == << <<1, 2>>, <<4, 3>>, <<2, 3>>, <<1, 6>> >>

AssocConstruct ==
    /\ pc < 3
    /\ \E kind \in Kinds, ntables \in 1..MaxTables, tdim \in 1..MaxTableDim,
          mesh \in BOOLEAN :
           /\ kind = "time" => ntables = 1 /\ tdim = 1
           /\ kind = "sky" => ntables = 1
           /\ LookupTableCoord__init__(kind, ntables, tdim, mesh)
    /\ pc' = pc + 1
    /\ UNCHANGED resolver_vars

AssocAnd ==
    /\ pc \in 3..6
    /\ LookupTableCoord__and__(AssocOperands[pc - 2][1], AssocOperands[pc - 2][2])
    /\ pc' = pc + 1
    /\ UNCHANGED resolver_vars

NextAssoc ==
    \/ AssocConstruct
    \/ AssocAnd

SpecAssoc == InitLut /\ [][NextAssoc]_vars

(***************************************************************************)
(* Claims on the lookup-table coordinates                                  *)
(***************************************************************************)
\* C5: laziness.  No construction, composition or slicing invokes the
\* construction function of a delayed table.
C5_Lazy ==
    last.op \in {"init", "and", "getitem", "dlt_getitem"} => last.calls = 0

\* C6: composition leaves its operands unchanged.  A step R = A & B keeps
\* the contents of A's and B's lists and the axis order of their frames,
\* and R's lists are other list objects than A's and B's.
C6_OperandsUnchanged ==
    [][(last'.op = "and" /\ Len(lutcs') = Len(lutcs) + 1) =>
           \A x \in {last'.a, last'.b} :
               /\ pylists'[lutcs'[x].delayed_models] = pylists[lutcs[x].delayed_models]
               /\ pylists'[lutcs'[x].frames] = pylists[lutcs[x].frames]
               /\ \A i \in 1..Len(pylists[lutcs[x].frames]) :
                      frames'[pylists[lutcs[x].frames][i]].axes_order =
                          frames[pylists[lutcs[x].frames][i]].axes_order
               /\ lutcs'[last'.res].delayed_models # lutcs'[x].delayed_models
               /\ lutcs'[last'.res].frames # lutcs'[x].frames]_vars

RECURSIVE axes_orders(_)
axes_orders(flist) ==
    IF Len(flist) = 0 THEN <<>>
    ELSE frames[flist[1]].axes_order \o axes_orders(Tail(flist))

\* C7: associativity in axis ordering.  After (A & B) & C and A & (B & C)
\* both results hold A's, B's and C's frames in that order, their ndim is
\* the sum of the three, and the frames' axis orders concatenate to
\* (0, ..., ndim - 1).
C7_Associative ==
    pc = 7 =>
        \A r \in {5, 7} :
            /\ frames_of(r) = <<1, 2, 3>>
            /\ ndim(r) = frames[1].naxes + frames[2].naxes + frames[3].naxes
            /\ axes_orders(frames_of(r)) = range_tuple(0, ndim(r))

\* C8: slicing a delayed table gives a new instance with the same
\* construction function and the same mesh flag.
C8_SlicePreservesDescription ==
    (last.op = "dlt_getitem" /\ last.err = "none") =>
        /\ last.res # last.a
        /\ dlts[last.res].model_function = dlts[last.a].model_function
        /\ dlts[last.res].mesh = dlts[last.a].mesh

\* the entries of the padded item that the claim gives to pair k
partition(flist, item, k) ==
    LET before == SumSeq([i \in 1..(k - 1) |-> Len(frames[flist[i]].axes_order)])
    IN SubSeq(item, before + 1, before + Len(frames[flist[k]].axes_order))

all_ints(q) == \A i \in 1..Len(q) : q[i] = "int"

RECURSIVE kept_pairs(_, _, _)
kept_pairs(flist, item, k) ==
    IF k > Len(flist) THEN <<>>
    ELSE (IF all_ints(partition(flist, item, k)) THEN <<>> ELSE <<k>>)
         \o kept_pairs(flist, item, k + 1)

\* C9: slicing a coordinate with at most ndim entries partitions the padded
\* item over the pairs by each frame's number of axes; the pairs with a
\* non-integer entry are kept in order, each table sliced by its partition;
\* when no pair is kept the result is None.
C9_Partition ==
    (last.op = "getitem" /\ Len(last.item) <= ndim(last.a)) =>
        LET flist == frames_of(last.a)
            dms == delayed_models_of(last.a)
            item == sanitize_slices(last.item, ndim(last.a)).val
            kept == kept_pairs(flist, item, 1)
        IN /\ last.err = "none"
           /\ Len(kept) = 0 => last.res = 0
           /\ Len(kept) > 0 =>
                  /\ last.res # 0
                  /\ frames_of(last.res) = [i \in 1..Len(kept) |-> flist[kept[i]]]
                  /\ Len(delayed_models_of(last.res)) = Len(kept)
                  /\ \A i \in 1..Len(kept) :
                         dlts[delayed_models_of(last.res)[i]].lookup_table =
                             DelayedLookupTable__getitem__(
                                 dlts[dms[kept[i]]],
                                 partition(flist, item, kept[i])).val.lookup_table

\* C10: every coordinate holds as many delayed tables as frames, and its
\* ndim is the number of inputs of its realized model.
C10_NdimIsModelInputs ==
    \A a \in 1..Len(lutcs) :
        /\ Len(delayed_models_of(a)) = Len(frames_of(a))
        /\ model_of(a).err = "none"
        /\ ndim(a) = model_of(a).n_inputs

(***************************************************************************)
(* cube_utils.py: the sequence-native resolver                             *)
(***************************************************************************)
\* list(range(start, stop, step)) for a non-zero step
py_range(start, stop, step) ==
    [i \in 1..range_len(<<start, stop, step>>) |-> start + (i - 1) * step]

\* cube_utils.py:85-109.  range() takes no None: with a None step the
\* TypeError is caught and range(start, stop) is used, with a None start or
\* stop the second range() raises TypeError too; a zero step is a ValueError,
\* which the handler does not catch.
get_sequence_slices_from_slice_item(slice_item, cube_slice) ==
    LET start == slice_item.v[1]
        stop  == slice_item.v[2]
        step  == slice_item.v[3]
    IN IF start = NoneField \/ stop = NoneField THEN Raise("TypeError")
       ELSE IF step = <<0>> THEN Raise("ValueError")
       ELSE LET r == py_range(start[1], stop[1],
                              IF step = NoneField THEN 1 ELSE step[1])
            IN Ok([i \in 1..Len(r) |-> SequenceSlice(r[i], cube_slice)])

\* cube_utils.py:112-141.  A remainder of one element is passed bare, any
\* other remainder as a tuple; tuple_item[0] of the empty tuple is an
\* IndexError.
get_sequence_slices_from_tuple_item(tuple_item) ==
    LET t == tuple_item.v
        rest == SubSeq(t, 2, Len(t))
        cube_slice == IF Len(rest) = 1 THEN t[2] ELSE PyTuple(rest)
    IN IF Len(t) = 0 THEN Raise("IndexError")
       ELSE IF t[1].k = "int"
       THEN Ok(get_sequence_slices_from_int_item(IntOf(t[1]), cube_slice))
       ELSE IF t[1].k = "slice"
       THEN get_sequence_slices_from_slice_item(t[1], cube_slice)
       ELSE Raise("TypeError")

\* cube_utils.py:49-60
convert_item_to_sequence_slices(item) ==
    LET cube_slice_default == slice_None
    IN CASE item.k = "int" ->
              Ok(get_sequence_slices_from_int_item(IntOf(item), cube_slice_default))
         [] item.k = "slice" ->
              get_sequence_slices_from_slice_item(item, cube_slice_default)
         [] item.k = "tuple" ->
              get_sequence_slices_from_tuple_item(item)
         [] OTHER -> Raise("TypeError")

(***************************************************************************)
(* Item conversions applied to a sequence: a run is one call, its          *)
(* arguments drawn at the start.                                           *)
(***************************************************************************)
SequenceIndices == {SequenceIndex(s, c) : s \in 0..1, c \in 0..1}

InitItems ==
    /\ cubesequence \in {[lengths |-> l, common_axis |-> a] :
                            l \in LengthSeqs, a \in 0..MaxCommonAxis}
    /\ ret \in {[op |-> o, arg |-> item, out |-> Pending] :
                   o \in {"convert_cube_like_item_to_sequence_slices",
                          "convert_item_to_sequence_slices"},
                   item \in CubeLikeItems}
               \cup {[op |-> "_convert_sequence_index_to_sequence_slice",
                      arg |-> [sequence_index |-> si, cube_like_item |-> item],
                      out |-> Pending] :
                        si \in SequenceIndices, item \in Tuples \cup {PyNone}}
    /\ NoLut

CallConvertItem ==
    /\ ret.op = "convert_item_to_sequence_slices" /\ ret.out = Pending
    /\ ret' = [ret EXCEPT !.out = convert_item_to_sequence_slices(ret.arg)]
    /\ UNCHANGED <<cubesequence, lut_vars>>

CallSequenceIndexToSequenceSlice ==
    /\ ret.op = "_convert_sequence_index_to_sequence_slice" /\ ret.out = Pending
    /\ ret' = [ret EXCEPT !.out =
                   _convert_sequence_index_to_sequence_slice(
                       ret.arg.sequence_index, cubesequence.common_axis,
                       ret.arg.cube_like_item)]
    /\ UNCHANGED <<cubesequence, lut_vars>>

NextItems ==
    \/ CallConvertCubeLikeItem
    \/ CallConvertItem
    \/ CallSequenceIndexToSequenceSlice

SpecItems == InitItems /\ [][NextItems]_vars

(***************************************************************************)
(* Claims on the item conversions                                          *)
(***************************************************************************)
\* C11: an item that is neither an int, a slice nor a tuple makes both
\* convert_cube_like_item_to_sequence_slices and
\* convert_item_to_sequence_slices fail with a TypeError and return nothing;
\* a tuple whose driving element is neither an int nor a slice fails too.
C11_UnsupportedKinds ==
    /\ (/\ \/ Called("convert_cube_like_item_to_sequence_slices")
           \/ Called("convert_item_to_sequence_slices")
        /\ ret.arg.k \notin {"int", "slice", "tuple"}) =>
           ret.out = Raise("TypeError")
    /\ (/\ Called("convert_cube_like_item_to_sequence_slices")
        /\ ret.arg.k = "tuple"
        /\ Len(ret.arg.v) > cubesequence.common_axis
        /\ ret.arg.v[cubesequence.common_axis + 1].k \notin {"int", "slice"}) =>
           ret.out.err # "none" /\ ret.out.val = <<>>
    /\ (/\ Called("convert_item_to_sequence_slices")
        /\ ret.arg.k = "tuple"
        /\ Len(ret.arg.v) > 0
        /\ ret.arg.v[1].k \notin {"int", "slice"}) =>
           ret.out.err # "none" /\ ret.out.val = <<>>

\* C12: a tuple item shorter than common_axis + 1 (its length equal to
\* common_axis included) fails with the ValueError of the length check.
C12_TupleTooShort ==
    (/\ Called("convert_cube_like_item_to_sequence_slices")
     /\ ret.arg.k = "tuple"
     /\ Len(ret.arg.v) < cubesequence.common_axis + 1) =>
        ret.out = Raise("ValueError")

\* C13: _convert_sequence_index_to_sequence_slice on (s, c), common_axis a
\* and an item that is None or a tuple returns SequenceSlice(s, t), t a tuple
\* of length max(len(item), a + 1) with t[a] = c, slice(None) at every padded
\* position and the item's own element everywhere else.
C13_PaddedSlice ==
    Called("_convert_sequence_index_to_sequence_slice") =>
        LET a == cubesequence.common_axis
            given == IF ret.arg.cube_like_item.k = "None" THEN <<>>
                     ELSE ret.arg.cube_like_item.v
            n == IF Len(given) > a + 1 THEN Len(given) ELSE a + 1
            t == [i \in 1..n |->
                     IF i = a + 1 THEN PyInt(ret.arg.sequence_index[2])
                     ELSE IF i <= Len(given) THEN given[i] ELSE slice_None]
        IN ret.out = Ok(SequenceSlice(ret.arg.sequence_index[1], PyTuple(t)))

\* the slice that selects cubes in a sequence-native item, if there is one
sequence_selector(item) ==
    IF item.k = "slice" THEN <<item>>
    ELSE IF item.k = "tuple" /\ Len(item.v) > 0 /\ item.v[1].k = "slice"
    THEN <<item.v[1]>>
    ELSE <<>>

\* the inner cube item of a sequence-native item: slice(None) for a bare
\* selector, the remainder of a tuple (a single remaining element as itself)
inner_item(item) ==
    IF item.k # "tuple" THEN slice_None
    ELSE IF Len(item.v) = 2 THEN item.v[2]
    ELSE PyTuple(SubSeq(item.v, 2, Len(item.v)))

\* C14: convert_item_to_sequence_slices on a slice, or on a tuple whose
\* element 0 is a slice, with start, stop and step given or omitted (step
\* not zero) raises nothing and returns one SequenceSlice per cube index the
\* slice selects among the sequence's cubes, in slice order, each with the
\* same inner cube item.
C14_SequenceSliceItem ==
    (/\ Called("convert_item_to_sequence_slices")
     /\ sequence_selector(ret.arg) # <<>>
     /\ sequence_selector(ret.arg)[1].v[3] # <<0>>) =>
        LET idx == selected(sequence_selector(ret.arg)[1], Len(cubesequence.lengths))
        IN ret.out = Ok([i \in 1..Len(idx) |->
                            SequenceSlice(idx[i], inner_item(ret.arg))])

\* C15: a virtual index beyond the last extent raises nothing and resolves
\* to the last cube and its last offset: (n-1, E[n-1] - E[n-2] - 1) for
\* n >= 2 cubes and (0, E[0] - 1) for one cube.
C15_Clamp ==
    (ret.op = "index" /\ ret.out # Pending /\ IntOf(ret.arg) > TotalLength - 1) =>
        LET n == Len(Extents)
        IN ret.out = Ok(IF n = 1
                        THEN SequenceIndex(0, Extents[1] - 1)
                        ELSE SequenceIndex(n - 1, Extents[n] - Extents[n - 1] - 1))

\* an index two past the end of a two-cube sequence
C15_Witness ==
    /\ Returned("index")
    /\ cubesequence.lengths = <<2, 1>>
    /\ IntOf(ret.arg) = 4
    /\ ret.out.val = <<1, 0>>

====
